---- MODULE Spec2Model ----
(***************************************************************************)
(* A model of src/app.py: the HAR walker extract_data_from_har, the post   *)
(* extractor extract_posts, the field flattener extract_simple_fields, the *)
(* content decoder decode_content and the selected-column CSV export.      *)
(*                                                                         *)
(* Python values are tagged records.  JSON objects keep their keys in      *)
(* insertion order (keys/vals sequences), as Python dicts do.  The flat    *)
(* records built by the program (dict of field name -> scalar) are TLA+    *)
(* functions from field names to tagged scalars: Python compares dicts     *)
(* without regard to key order and no operation below observes it.         *)
(* A character outside ASCII is written as its JSON escape, \uXXXX, and    *)
(* counts as one character.                                                *)
(***************************************************************************)
EXTENDS Integers, Sequences, FiniteSets, TLC

(***************************************************************************)
(* Python / JSON values                                                    *)
(***************************************************************************)
None == [t |-> "null"]
Bool(b) == [t |-> "bool", b |-> b]
Num(n) == [t |-> "int", n |-> n]
Float(r) == [t |-> "float", r |-> r]
Str(s) == [t |-> "str", s |-> s]
List(items) == [t |-> "list", items |-> items]
Obj(keys, vals) == [t |-> "obj", keys |-> keys, vals |-> vals]

\* isinstance(value, (str, int, float, bool)) or value is None
IsScalar(v) == v.t \in {"null", "bool", "int", "float", "str"}

\* bool(value): the truth value Python's `not x` / `if x` tests
Truthy(v) ==
  CASE v.t = "null" -> FALSE
    [] v.t = "bool" -> v.b
    [] v.t = "int" -> v.n # 0
    [] v.t = "float" -> v.r \notin {"0.0", "-0.0"}
    [] v.t = "str" -> v.s # ""
    [] v.t = "list" -> Len(v.items) > 0
    [] v.t = "obj" -> Len(v.keys) > 0

\* the outcome of an expression that may raise
Ok(v) == [ok |-> TRUE, val |-> v]
Raise(kind) == [ok |-> FALSE, exc |-> kind]

\* index of key k in an object's key sequence (0 when absent)
KeyIndex(o, k) ==
  IF \E i \in 1..Len(o.keys) : o.keys[i] = k
  THEN CHOOSE i \in 1..Len(o.keys) : o.keys[i] = k
  ELSE 0

(***************************************************************************)
(* Strings.  TLC cannot look inside a string, so Spelling lists the        *)
(* characters of every string whose characters the program inspects        *)
(* (str.lower, `in` on strings, str.isdigit, int(), json.dumps escaping).  *)
(***************************************************************************)
BaseSpelling ==
  { <<"", <<>> >>,
    <<"log", <<"l","o","g">> >>,
    <<"entries", <<"e","n","t","r","i","e","s">> >>,
    <<"response", <<"r","e","s","p","o","n","s","e">> >>,
    <<"content", <<"c","o","n","t","e","n","t">> >>,
    <<"data", <<"d","a","t","a">> >>,
    <<"list", <<"l","i","s","t">> >>,
    <<"abc", <<"a","b","c">> >>,
    <<"text", <<"t","e","x","t">> >>,
    <<"q", <<"q">> >>,
    <<"time", <<"t","i","m","e">> >>,
    <<"1.5", <<"1",".","5">> >>,
    <<"a", <<"a">> >>,
    <<"b", <<"b">> >>,
    <<"c", <<"c">> >>,
    <<"1080", <<"1","0","8","0">> >>,
    <<"007", <<"0","0","7">> >>,
    <<"1700000000", <<"1","7","0","0","0","0","0","0","0","0">> >>,
    <<"253402300800", <<"2","5","3","4","0","2","3","0","0","8","0","0">> >>,
    <<"9223372036854775808",
      <<"9","2","2","3","3","7","2","0","3","6","8","5","4","7","7","5","8","0","8">> >>,
    <<"aweme", <<"a","w","e","m","e">> >>,
    <<"author", <<"a","u","t","h","o","r">> >> }

\* the keys of the sub-objects that the corpus flattens
FlatKeys ==
  { <<"aweme_id", <<"a","w","e","m","e","_","i","d">> >>,
    <<"create_time", <<"c","r","e","a","t","e","_","t","i","m","e">> >>,
    <<"Time_tag", <<"T","i","m","e","_","t","a","g">> >>,
    <<"update_time", <<"u","p","d","a","t","e","_","t","i","m","e">> >>,
    <<"timer", <<"t","i","m","e","r">> >>,
    <<"width", <<"w","i","d","t","h">> >>,
    <<"desc", <<"d","e","s","c">> >>,
    <<"nickname", <<"n","i","c","k","n","a","m","e">> >>,
    <<"uid", <<"u","i","d">> >>,
    <<"search_world", <<"s","e","a","r","c","h","_","w","o","r","l","d">> >>,
    <<"tags", <<"t","a","g","s">> >>,
    <<"empty_list", <<"e","m","p","t","y","_","l","i","s","t">> >>,
    <<"stat", <<"s","t","a","t">> >>,
    <<"extra", <<"e","x","t","r","a">> >>,
    <<"flag", <<"f","l","a","g">> >>,
    <<"none", <<"n","o","n","e">> >>,
    <<"ratio", <<"r","a","t","i","o">> >> }

\* a prefixed field name is spelled prefix, "_", key (f"{prefix}_{key}")
Spelling ==
  BaseSpelling \cup FlatKeys \cup
  { <<p[1] \o "_" \o k[1], p[2] \o <<"_">> \o k[2]>> :
      p \in {q \in BaseSpelling : q[1] \in {"aweme", "author"}}, k \in FlatKeys }

Chars(s) == (CHOOSE p \in Spelling : p[1] = s)[2]

Digits == <<"0","1","2","3","4","5","6","7","8","9">>


\* str.lower() on one character
Lower(c) ==
  CASE c = "A" -> "a" [] c = "B" -> "b" [] c = "C" -> "c" [] c = "D" -> "d"
    [] c = "E" -> "e" [] c = "F" -> "f" [] c = "G" -> "g" [] c = "H" -> "h"
    [] c = "I" -> "i" [] c = "J" -> "j" [] c = "K" -> "k" [] c = "L" -> "l"
    [] c = "M" -> "m" [] c = "N" -> "n" [] c = "O" -> "o" [] c = "P" -> "p"
    [] c = "Q" -> "q" [] c = "R" -> "r" [] c = "S" -> "s" [] c = "T" -> "t"
    [] c = "U" -> "u" [] c = "V" -> "v" [] c = "W" -> "w" [] c = "X" -> "x"
    [] c = "Y" -> "y" [] c = "Z" -> "z" [] OTHER -> c

LowerChars(cs) == [i \in 1..Len(cs) |-> Lower(cs[i])]

\* needle in hay, on character sequences (Python's substring test)
ContainsSeq(needle, hay) ==
  \E i \in 0..(Len(hay) - Len(needle)) :
     \A j \in 1..Len(needle) : hay[i + j] = needle[j]

\* str.isdigit(): non-empty and every character a decimal digit
IsDigitChars(cs) ==
  Len(cs) > 0 /\ \A i \in 1..Len(cs) : \E d \in 1..10 : Digits[d] = cs[i]

DigitOf(c) == (CHOOSE d \in 1..10 : Digits[d] = c) - 1

RECURSIVE IntChars(_)
\* the characters of str(n) for an int n
IntChars(n) ==
  IF n < 0 THEN <<"-">> \o IntChars(-n)
  ELSE IF n < 10 THEN <<Digits[n + 1]>>
  ELSE IntChars(n \div 10) \o <<Digits[(n % 10) + 1]>>

RECURSIVE JoinChars(_)
JoinChars(cs) == IF cs = <<>> THEN "" ELSE Head(cs) \o JoinChars(Tail(cs))

\* the characters of str(value) for a scalar value
StrChars(v) ==
  CASE v.t = "str" -> Chars(v.s)
    [] v.t = "int" -> IntChars(v.n)
    [] v.t = "float" -> Chars(v.r)
    [] v.t = "bool" -> IF v.b THEN <<"T","r","u","e">> ELSE <<"F","a","l","s","e">>
    [] v.t = "null" -> <<"N","o","n","e">>

\* str(value) for a scalar value
PyStr(v) ==
  CASE v.t = "str" -> v.s
    [] v.t = "float" -> v.r
    [] OTHER -> JoinChars(StrChars(v))

(***************************************************************************)
(* Container operations and the exceptions they raise                      *)
(***************************************************************************)
\* `key in container`
PyContains(container, key) ==
  CASE container.t = "obj" -> Ok(KeyIndex(container, key) # 0)
    [] container.t = "list" ->
         Ok(\E i \in 1..Len(container.items) : container.items[i] = Str(key))
    [] container.t = "str" -> Ok(ContainsSeq(Chars(key), Chars(container.s)))
    [] OTHER -> Raise("TypeError")

\* container[key] for a string key
PyGetItem(container, key) ==
  CASE container.t = "obj" ->
         IF KeyIndex(container, key) # 0
         THEN Ok(container.vals[KeyIndex(container, key)])
         ELSE Raise("KeyError")
    [] OTHER -> Raise("TypeError")

\* container.get(key, default)
PyGet(container, key, default) ==
  CASE container.t = "obj" ->
         IF KeyIndex(container, key) # 0
         THEN Ok(container.vals[KeyIndex(container, key)])
         ELSE Ok(default)
    [] OTHER -> Raise("AttributeError")

\* the elements `for x in container` visits
PyIter(container) ==
  CASE container.t = "list" -> Ok(container.items)
    [] container.t = "obj" ->
         Ok([i \in 1..Len(container.keys) |-> Str(container.keys[i])])
    [] container.t = "str" ->
         Ok([i \in 1..Len(Chars(container.s)) |-> Str(Chars(container.s)[i])])
    [] OTHER -> Raise("TypeError")

(***************************************************************************)
(* Timestamps: int(value) and datetime.fromtimestamp(...).strftime(...)    *)
(* A Python int is unbounded; a timestamp is kept as its decimal digits.   *)
(***************************************************************************)
RECURSIVE StripZeros(_)
StripZeros(ds) ==
  IF Len(ds) > 1 /\ ds[1] = 0 THEN StripZeros(Tail(ds)) ELSE ds

\* int(value), for a value whose str() is all digits
PyInt(v) == StripZeros([i \in 1..Len(StrChars(v)) |-> DigitOf(StrChars(v)[i])])

\* a > b on digit sequences without leading zeros
BigGreater(a, b) ==
  \/ Len(a) > Len(b)
  \/ /\ Len(a) = Len(b)
     /\ \E i \in 1..Len(a) :
          /\ a[i] > b[i]
          /\ \A j \in 1..(i - 1) : a[j] = b[j]

\* the largest time_t, 2^63 - 1
TimeTMax == <<9,2,2,3,3,7,2,0,3,6,8,5,4,7,7,5,8,0,7>>

RECURSIVE DivMod86400(_, _, _)
\* long division of a digit sequence by the seconds of a day
DivMod86400(ds, q, r) ==
  IF ds = <<>> THEN [days |-> q, secs |-> r]
  ELSE DivMod86400(Tail(ds), q * 10 + ((r * 10 + Head(ds)) \div 86400),
                   (r * 10 + Head(ds)) % 86400)

\* the civil date of a day count since 1970-01-01 (proleptic Gregorian)
CivilFromDays(days) ==
  LET z == days + 719468
      era == z \div 146097
      doe == z - era * 146097
      yoe == (doe - (doe \div 1460) + (doe \div 36524) - (doe \div 146096)) \div 365
      doy == doe - (365 * yoe + (yoe \div 4) - (yoe \div 100))
      mp == (5 * doy + 2) \div 153
      d == doy - ((153 * mp + 2) \div 5) + 1
      m == IF mp < 10 THEN mp + 3 ELSE mp - 9
      y == yoe + era * 400 + (IF m <= 2 THEN 1 ELSE 0)
  IN [year |-> y, month |-> m, day |-> d]

Pad2(n) == Digits[(n \div 10) + 1] \o Digits[(n % 10) + 1]

\* strftime('%Y-%m-%d %H:%M:%S')
Strftime(date, secs) ==
  JoinChars(IntChars(date.year)) \o "-" \o Pad2(date.month) \o "-" \o Pad2(date.day)
    \o " " \o Pad2(secs \div 3600) \o ":" \o Pad2((secs % 3600) \div 60)
    \o ":" \o Pad2(secs % 60)

\* datetime.fromtimestamp(ts).strftime(...) for local time utc + offset:
\* OverflowError beyond time_t, ValueError/OSError beyond year 9999
FormatTimestamp(ts, offset) ==
  IF BigGreater(ts, TimeTMax) THEN Raise("OverflowError")
  ELSE IF Len(ts) > 12 THEN Raise("ValueError")
  ELSE LET dm == DivMod86400(ts, 0, 0)
           local == dm.secs + offset
           date == CivilFromDays(dm.days + (local \div 86400))
       IN IF date.year > 9999 THEN Raise("ValueError")
          ELSE Ok(Str(Strftime(date, local % 86400)))


(***************************************************************************)
(* Flat records: Python dicts from field name to scalar                    *)
(***************************************************************************)
EmptyDict == <<>>

\* d[key] = value
DictSet(d, key, value) ==
  [k \in DOMAIN d \cup {key} |-> IF k = key THEN value ELSE d[k]]

\* d.update(other)
DictUpdate(d, other) ==
  [k \in DOMAIN d \cup DOMAIN other |-> IF k \in DOMAIN other THEN other[k] ELSE d[k]]

RECURSIVE JoinStrs(_, _)
\* sep.join(strs)
JoinStrs(strs, sep) ==
  IF strs = <<>> THEN ""
  ELSE IF Len(strs) = 1 THEN strs[1]
  ELSE strs[1] \o sep \o JoinStrs(Tail(strs), sep)

\* repr(s) of a string: quotes chosen as Python chooses them
ReprStr(s) ==
  LET cs == Chars(s)
      has(c) == \E i \in 1..Len(cs) : cs[i] = c
      quote == IF has("'") /\ ~has("\"") THEN "\"" ELSE "'"
  IN quote \o JoinChars([i \in 1..Len(cs) |->
                           IF cs[i] = "\\" THEN "\\\\"
                           ELSE IF cs[i] = quote THEN "\\" \o quote
                           ELSE cs[i]]) \o quote

RECURSIVE PyRepr(_)
\* str(value) of a container shows the repr of its elements
PyRepr(v) ==
  CASE v.t = "null" -> "None"
    [] v.t = "str" -> ReprStr(v.s)
    [] v.t = "list" ->
         "[" \o JoinStrs([i \in 1..Len(v.items) |-> PyRepr(v.items[i])], ", ") \o "]"
    [] v.t = "obj" ->
         "{" \o JoinStrs([i \in 1..Len(v.keys) |->
                            ReprStr(v.keys[i]) \o ": " \o PyRepr(v.vals[i])], ", ") \o "}"
    [] OTHER -> PyStr(v)

\* json.dumps of a string with ensure_ascii=False
JsonQuote(s) ==
  LET cs == Chars(s)
  IN "\"" \o JoinChars([i \in 1..Len(cs) |->
                          IF cs[i] = "\\" THEN "\\\\"
                          ELSE IF cs[i] = "\"" THEN "\\\""
                          ELSE cs[i]]) \o "\""

RECURSIVE JsonDumps(_)
\* json.dumps(value, ensure_ascii=False)
JsonDumps(v) ==
  CASE v.t = "null" -> "null"
    [] v.t = "bool" -> IF v.b THEN "true" ELSE "false"
    [] v.t = "str" -> JsonQuote(v.s)
    [] v.t = "list" ->
         "[" \o JoinStrs([i \in 1..Len(v.items) |-> JsonDumps(v.items[i])], ", ") \o "]"
    [] v.t = "obj" ->
         "{" \o JoinStrs([i \in 1..Len(v.keys) |->
                            JsonQuote(v.keys[i]) \o ": " \o JsonDumps(v.vals[i])], ", ") \o "}"
    [] OTHER -> PyStr(v)

(***************************************************************************)
(* extract_simple_fields                                                   *)
(***************************************************************************)
\* the separator of the search_world join, U+3001
JoinSeparator == "\\u3001"

RECURSIVE CommonLabel(_, _)
\* the first of the candidate keys holding a str, int or float (bool is an int)
CommonLabel(item, candidates) ==
  IF candidates = <<>> THEN JsonDumps(item)
  ELSE IF /\ KeyIndex(item, Head(candidates)) # 0
          /\ item.vals[KeyIndex(item, Head(candidates))].t \in {"str", "int", "float", "bool"}
       THEN PyStr(item.vals[KeyIndex(item, Head(candidates))])
       ELSE CommonLabel(item, Tail(candidates))

\* to_str, the display string of one element of the search_world list
ToStr(item) ==
  IF IsScalar(item) THEN (IF item.t = "null" THEN "" ELSE PyStr(item))
  ELSE IF item.t = "obj" THEN CommonLabel(item, <<"word", "name", "title">>)
  ELSE PyRepr(item)

FieldName(prefix, key) == IF prefix # "" THEN prefix \o "_" \o key ELSE key

\* a flattener that keeps every list as the empty string
FlattenField_AnyList(simple_fields, prefix, key, value) ==
  IF IsScalar(value) THEN DictSet(simple_fields, FieldName(prefix, key), value)
  ELSE IF value.t = "obj" /\ ~Truthy(value)
       THEN DictSet(simple_fields, FieldName(prefix, key), Str(""))
  ELSE IF value.t = "list"
       THEN IF key = "search_world"
            THEN DictSet(simple_fields, FieldName(prefix, key),
                         Str(IF Truthy(value)
                             THEN JoinStrs([i \in 1..Len(value.items) |-> ToStr(value.items[i])],
                                           JoinSeparator)
                             ELSE ""))
            ELSE DictSet(simple_fields, FieldName(prefix, key), Str(""))
  ELSE simple_fields

\* one iteration of the loop over obj.items(): the mapping after (key, value)
FlattenField(simple_fields, prefix, key, value) ==
  IF IsScalar(value) THEN DictSet(simple_fields, FieldName(prefix, key), value)
  ELSE IF value.t = "obj" /\ ~Truthy(value)
       THEN DictSet(simple_fields, FieldName(prefix, key), Str(""))
  ELSE IF value.t = "list"
       THEN IF key = "search_world"
            THEN DictSet(simple_fields, FieldName(prefix, key),
                         Str(IF Truthy(value)
                             THEN JoinStrs([i \in 1..Len(value.items) |-> ToStr(value.items[i])],
                                           JoinSeparator)
                             ELSE ""))
            ELSE IF ~Truthy(value)
                 THEN DictSet(simple_fields, FieldName(prefix, key), Str(""))
                 ELSE simple_fields
  ELSE simple_fields

RECURSIVE FlattenFrom(_, _, _, _)
FlattenFrom(obj, prefix, i, simple_fields) ==
  IF i > Len(obj.keys) THEN simple_fields
  ELSE FlattenFrom(obj, prefix, i + 1,
                   FlattenField(simple_fields, prefix, obj.keys[i], obj.vals[i]))

extract_simple_fields(obj, prefix) ==
  IF obj.t # "obj" THEN EmptyDict ELSE FlattenFrom(obj, prefix, 1, EmptyDict)

(***************************************************************************)
(* extract_posts                                                           *)
(***************************************************************************)
\* the sub-object of item under key when it is present and a dict, else none
SubObject(item, key) ==
  IF KeyIndex(item, key) # 0 /\ item.vals[KeyIndex(item, key)].t = "obj"
  THEN <<item.vals[KeyIndex(item, key)]>>
  ELSE <<>>

\* an item flattened only when it has both sub-objects
ItemCalls_BothRequired(item) ==
  IF SubObject(item, "aweme_info") = <<>> \/ SubObject(item, "author_info") = <<>>
  THEN <<>>
  ELSE <<[obj |-> SubObject(item, "aweme_info")[1], prefix |-> "aweme",
          result |-> extract_simple_fields(SubObject(item, "aweme_info")[1], "aweme")],
         [obj |-> SubObject(item, "author_info")[1], prefix |-> "author",
          result |-> extract_simple_fields(SubObject(item, "author_info")[1], "author")]>>

\* the extract_simple_fields calls one item makes, in order
ItemCalls(item) ==
  [i \in 1..Len(SubObject(item, "aweme_info")) |->
     [obj |-> SubObject(item, "aweme_info")[1], prefix |-> "aweme",
      result |-> extract_simple_fields(SubObject(item, "aweme_info")[1], "aweme")]]
  \o
  [i \in 1..Len(SubObject(item, "author_info")) |->
     [obj |-> SubObject(item, "author_info")[1], prefix |-> "author",
      result |-> extract_simple_fields(SubObject(item, "author_info")[1], "author")]]

RECURSIVE MergeCalls(_, _)
\* post_data after post_data.update(fields) for each call
MergeCalls(post_data, calls) ==
  IF calls = <<>> THEN post_data
  ELSE MergeCalls(DictUpdate(post_data, Head(calls).result), Tail(calls))

\* post_data of one dict item
ItemPostData(item) == MergeCalls(EmptyDict, ItemCalls(item))

RECURSIVE PostsFrom(_, _, _, _)
\* the loop over item_list: posts and the flattener calls made so far
PostsFrom(item_list, i, posts, calls) ==
  IF i > Len(item_list) THEN [posts |-> posts, calls |-> calls, exc |-> ""]
  ELSE IF item_list[i].t # "obj" THEN PostsFrom(item_list, i + 1, posts, calls)
  ELSE PostsFrom(item_list, i + 1,
                 IF ItemPostData(item_list[i]) # EmptyDict
                 THEN Append(posts, ItemPostData(item_list[i]))
                 ELSE posts,
                 calls \o ItemCalls(item_list[i]))

NoPosts(exc) == [posts |-> <<>>, calls |-> <<>>, exc |-> exc]

\* the body of the try block of extract_posts; exc names the exception that
\* leaves the block ("" when none does)
ExtractPostsBody(data) ==
  IF data.t # "obj" THEN NoPosts("")
  ELSE IF KeyIndex(data, "data") = 0 THEN NoPosts("")
  ELSE LET data_section == data.vals[KeyIndex(data, "data")]
           has_list == PyContains(data_section, "list")
       IN IF ~has_list.ok THEN NoPosts(has_list.exc)
          ELSE IF ~has_list.val
               \* the message reads data_section.keys()
               THEN NoPosts(IF data_section.t = "obj" THEN "" ELSE "AttributeError")
          ELSE IF ~PyGetItem(data_section, "list").ok
               THEN NoPosts(PyGetItem(data_section, "list").exc)
          ELSE IF PyGetItem(data_section, "list").val.t # "list" THEN NoPosts("")
          ELSE PostsFrom(PyGetItem(data_section, "list").val.items, 1, <<>>, <<>>)

\* extract_posts without its except clause
extract_posts_NoExcept(data) == ExtractPostsBody(data)

\* extract_posts: `except Exception` keeps the posts collected so far
extract_posts(data) == [ExtractPostsBody(data) EXCEPT !.exc = ""]


(***************************************************************************)
(* decode_content.  json.loads and base64.b64decode are library calls on   *)
(* opaque text: they are given by what they return on the response bodies  *)
(* of the corpus, and fail on every other text.                            *)
(***************************************************************************)
TextMain == "{\"data\":{\"list\":[5,{},{\"aweme_info\":{\"aweme_id\":\"1\",\"create_time\":\"1700000000\"},\"author_info\":{\"nickname\":\"Alice\"}},{\"aweme_info\":{\"desc\":\"abc\"}},{\"author_info\":{\"uid\":7},\"aweme_info\":\"abc\"}]}}"
TextTimes == "{\"data\":{\"list\":[{\"aweme_info\":{\"create_time\":1700000000,\"Time_tag\":\"1700000000\",\"update_time\":\"abc\",\"timer\":\"007\",\"width\":\"1080\"},\"author_info\":{\"create_time\":0,\"update_time\":1.5,\"timer\":true,\"Time_tag\":null,\"width\":\"\"}}]}}"
TextOverflow == "{\"data\":{\"list\":[{\"aweme_info\":{\"aweme_id\":\"a\"}},{\"aweme_info\":{\"create_time\":\"9223372036854775808\"}},{\"aweme_info\":{\"aweme_id\":\"c\"}}]}}"
TextYear == "{\"data\":{\"list\":[{\"aweme_info\":{\"create_time\":\"253402300800\"}},{\"aweme_info\":{\"aweme_id\":\"c\"}}]}}"
TextFlat == "{\"data\":{\"list\":[{\"aweme_info\":{\"search_world\":[\"a\",\"b\",\"c\"],\"tags\":[\"abc\"],\"empty_list\":[],\"stat\":{\"uid\":1},\"extra\":{},\"flag\":true,\"none\":null,\"ratio\":1.5},\"author_info\":{\"search_world\":[],\"stat\":{\"uid\":1}}},{\"aweme_info\":{\"search_world\":[{\"word\":\"q\"},{\"q\":1},null,7,[1]]}},{\"aweme_info\":{\"search_world\":{\"a\":1},\"tags\":[\"abc\"]}}]}}"
TextAuthor == "{\"data\":{\"list\":[{\"author_info\":{\"nickname\":\"Bob\"}}]}}"
TextNumber == "5"
TextNoData == "{\"list\":[{\"aweme_info\":{\"aweme_id\":\"1\"}}]}"
TextDataNull == "{\"data\":null}"
TextDataStr == "{\"data\":\"list\"}"
TextDataNum == "{\"data\":5}"
TextDataList == "{\"data\":[\"list\"]}"
TextNoList == "{\"data\":{\"log\":1}}"
TextListStr == "{\"data\":{\"list\":\"abc\"}}"
TextAuthorB64 == "eyJkYXRhIjp7Imxpc3QiOlt7ImF1dGhvcl9pbmZvIjp7Im5pY2tuYW1lIjoiQm9iIn19XX19"
TextGarbage == "not json"

\* json.loads: each JSON text of the corpus with the value it denotes
JsonText ==
  { <<TextMain, Obj(<<"data">>, <<Obj(<<"list">>, <<List(<<Num(5), Obj(<<>>, <<>>), Obj(<<"aweme_info", "author_info">>, <<Obj(<<"aweme_id", "create_time">>, <<Str("1"), Str("1700000000")>>), Obj(<<"nickname">>, <<Str("Alice")>>)>>), Obj(<<"aweme_info">>, <<Obj(<<"desc">>, <<Str("abc")>>)>>), Obj(<<"author_info", "aweme_info">>, <<Obj(<<"uid">>, <<Num(7)>>), Str("abc")>>)>>)>>)>>)>>,
    <<TextTimes, Obj(<<"data">>, <<Obj(<<"list">>, <<List(<<Obj(<<"aweme_info", "author_info">>, <<Obj(<<"create_time", "Time_tag", "update_time", "timer", "width">>, <<Num(1700000000), Str("1700000000"), Str("abc"), Str("007"), Str("1080")>>), Obj(<<"create_time", "update_time", "timer", "Time_tag", "width">>, <<Num(0), Float("1.5"), Bool(TRUE), None, Str("")>>)>>)>>)>>)>>)>>,
    <<TextOverflow, Obj(<<"data">>, <<Obj(<<"list">>, <<List(<<Obj(<<"aweme_info">>, <<Obj(<<"aweme_id">>, <<Str("a")>>)>>), Obj(<<"aweme_info">>, <<Obj(<<"create_time">>, <<Str("9223372036854775808")>>)>>), Obj(<<"aweme_info">>, <<Obj(<<"aweme_id">>, <<Str("c")>>)>>)>>)>>)>>)>>,
    <<TextYear, Obj(<<"data">>, <<Obj(<<"list">>, <<List(<<Obj(<<"aweme_info">>, <<Obj(<<"create_time">>, <<Str("253402300800")>>)>>), Obj(<<"aweme_info">>, <<Obj(<<"aweme_id">>, <<Str("c")>>)>>)>>)>>)>>)>>,
    <<TextFlat, Obj(<<"data">>, <<Obj(<<"list">>, <<List(<<Obj(<<"aweme_info", "author_info">>, <<Obj(<<"search_world", "tags", "empty_list", "stat", "extra", "flag", "none", "ratio">>, <<List(<<Str("a"), Str("b"), Str("c")>>), List(<<Str("abc")>>), List(<<>>), Obj(<<"uid">>, <<Num(1)>>), Obj(<<>>, <<>>), Bool(TRUE), None, Float("1.5")>>), Obj(<<"search_world", "stat">>, <<List(<<>>), Obj(<<"uid">>, <<Num(1)>>)>>)>>), Obj(<<"aweme_info">>, <<Obj(<<"search_world">>, <<List(<<Obj(<<"word">>, <<Str("q")>>), Obj(<<"q">>, <<Num(1)>>), None, Num(7), List(<<Num(1)>>)>>)>>)>>), Obj(<<"aweme_info">>, <<Obj(<<"search_world", "tags">>, <<Obj(<<"a">>, <<Num(1)>>), List(<<Str("abc")>>)>>)>>)>>)>>)>>)>>,
    <<TextAuthor, Obj(<<"data">>, <<Obj(<<"list">>, <<List(<<Obj(<<"author_info">>, <<Obj(<<"nickname">>, <<Str("Bob")>>)>>)>>)>>)>>)>>,
    <<TextNumber, Num(5)>>,
    <<TextNoData, Obj(<<"list">>, <<List(<<Obj(<<"aweme_info">>, <<Obj(<<"aweme_id">>, <<Str("1")>>)>>)>>)>>)>>,
    <<TextDataNull, Obj(<<"data">>, <<None>>)>>,
    <<TextDataStr, Obj(<<"data">>, <<Str("list")>>)>>,
    <<TextDataNum, Obj(<<"data">>, <<Num(5)>>)>>,
    <<TextDataList, Obj(<<"data">>, <<List(<<Str("list")>>)>>)>>,
    <<TextNoList, Obj(<<"data">>, <<Obj(<<"log">>, <<Num(1)>>)>>)>>,
    <<TextListStr, Obj(<<"data">>, <<Obj(<<"list">>, <<Str("abc")>>)>>)>> }

\* base64.b64decode(...).decode('utf-8'): each base64 text with its decoding
Base64Text == { <<TextAuthorB64, TextAuthor>> }

JsonLoads(text) ==
  IF \E p \in JsonText : p[1] = text
  THEN Ok((CHOOSE p \in JsonText : p[1] = text)[2])
  ELSE Raise("JSONDecodeError")

B64Decode(text) ==
  IF \E p \in Base64Text : p[1] = text
  THEN Ok((CHOOSE p \in Base64Text : p[1] = text)[2])
  ELSE Raise("binascii.Error")

\* decode_content: direct parse, then base64 and parse; None when all fail
\* (a body read from a HAR is never bytes)
decode_content(content) ==
  IF ~Truthy(content) THEN None
  ELSE IF content.t # "str" THEN None
  ELSE IF JsonLoads(content.s).ok THEN JsonLoads(content.s).val
  ELSE IF B64Decode(content.s).ok /\ JsonLoads(B64Decode(content.s).val).ok
       THEN JsonLoads(B64Decode(content.s).val).val
  ELSE None


(***************************************************************************)
(* extract_data_from_har: one entry of log.entries                         *)
(***************************************************************************)
\* 'time' in field_name.lower()
HasTimeName(field_name) == ContainsSeq(Chars("time"), LowerChars(Chars(field_name)))

\* the exceptions the timestamp conversion catches
CaughtByConversion == {"ValueError", "TypeError", "OSError"}

\* the value of one field after the timestamp loop, or the exception that
\* escapes its try block
ConvertField(field_name, value, offset) ==
  IF HasTimeName(field_name) /\ Truthy(value) /\ IsDigitChars(StrChars(value))
  THEN LET formatted == FormatTimestamp(PyInt(value), offset)
       IN IF formatted.ok THEN formatted
          ELSE IF formatted.exc \in CaughtByConversion THEN Ok(value)
          ELSE formatted
  ELSE Ok(value)

\* a copy that takes `post.get(field) or ''`
NormalizeRecord_OrEmpty(post, offset) ==
  IF \E f \in DOMAIN post : ~ConvertField(f, post[f], offset).ok
  THEN Raise("OverflowError")
  ELSE Ok([f \in DOMAIN post |->
             IF Truthy(post[f]) THEN ConvertField(f, post[f], offset).val ELSE Str("")])

\* post_data after the copy of the post's fields and the timestamp loop.  The
\* loop visits the fields in sorted order; an escaping exception discards
\* post_data whole, so the order of the visits does not show in the outcome.
NormalizeRecord(post, offset) ==
  IF \E f \in DOMAIN post : ~ConvertField(f, post[f], offset).ok
  THEN Raise("OverflowError")
  ELSE Ok([f \in DOMAIN post |-> ConvertField(f, post[f], offset).val])

RECURSIVE WalkPosts(_, _, _, _, _)
\* `for post in posts`: the records appended, the posts counted, and whether
\* an exception left the loop
WalkPosts(posts, i, records, counted, offset) ==
  IF i > Len(posts) THEN [records |-> records, counted |-> counted, exc |-> FALSE]
  ELSE IF NormalizeRecord(posts[i], offset).ok
       THEN WalkPosts(posts, i + 1, Append(records, NormalizeRecord(posts[i], offset).val),
                      counted + 1, offset)
       ELSE [records |-> records, counted |-> counted + 1, exc |-> TRUE]

\* the exclusion spelled with the registered type name
IsExcludedMime_Jpeg(mime_type) == mime_type = Str("image/jpeg")

\* mime_type == 'image/jpg'
IsExcludedMime(mime_type) == mime_type = Str("image/jpg")

\* an entry left by `continue` (exc FALSE) or by the except clause (exc TRUE)
\* before extract_posts was called
Left(stage, exc) ==
  [stage |-> stage, exc |-> exc, data |-> None, run |-> NoPosts(""),
   records |-> <<>>, counted |-> 0]

\* the entry from the decoded payload on
EntryPosts(data, offset) ==
  LET run == extract_posts(data)
      walk == WalkPosts(run.posts, 1, <<>>, 0, offset)
  IN IF run.exc # ""
     THEN [stage |-> "posts", exc |-> TRUE, data |-> data, run |-> run,
           records |-> <<>>, counted |-> 0]
     ELSE [stage |-> "posts", exc |-> walk.exc, data |-> data, run |-> run,
           records |-> walk.records, counted |-> walk.counted]

\* the entry from `content = entry['response']['content']` on
EntryContent(content, offset) ==
  LET text == PyGet(content, "text", None)
      mime_type == PyGet(content, "mimeType", Str("unknown"))
  IN IF ~text.ok THEN Left("text", TRUE)
     ELSE IF ~Truthy(text.val) THEN Left("text", FALSE)
     ELSE IF IsExcludedMime(mime_type.val) THEN Left("mime", FALSE)
     ELSE IF ~Truthy(decode_content(text.val)) THEN Left("decode", FALSE)
     ELSE EntryPosts(decode_content(text.val), offset)

\* the body of the try block for one entry
EntryOutcome(entry, offset) ==
  LET has_response == PyContains(entry, "response")
      response == PyGetItem(entry, "response")
      has_content == PyContains(response.val, "content")
      content == PyGetItem(response.val, "content")
  IN IF ~has_response.ok THEN Left("response", TRUE)
     ELSE IF ~has_response.val THEN Left("response", FALSE)
     ELSE IF ~response.ok THEN Left("response", TRUE)
     ELSE IF ~has_content.ok THEN Left("response", TRUE)
     ELSE IF ~has_content.val THEN Left("response", FALSE)
     ELSE IF ~content.ok THEN Left("response", TRUE)
     ELSE EntryContent(content.val, offset)

\* an except clause that leaves the loop
NextEntry_BreakOnError(i, n, exc) == IF exc THEN n + 1 ELSE i + 1

\* the index of the entry the loop turns to after entry i of n, whether the
\* body ended normally, by `continue`, or in the except clause (`continue`)
NextEntry(i, n, exc) == i + 1

\* the shape check without its test for 'entries'
ShapeCheck_NoEntriesTest(har) ==
  IF ~Truthy(har) THEN Ok(TRUE)
  ELSE IF ~PyContains(har, "log").ok THEN PyContains(har, "log")
  ELSE Ok(~PyContains(har, "log").val)

\* `not har_data or 'log' not in har_data or 'entries' not in har_data['log']`
ShapeCheck(har) ==
  IF ~Truthy(har) THEN Ok(TRUE)
  ELSE IF ~PyContains(har, "log").ok THEN PyContains(har, "log")
  ELSE IF ~PyContains(har, "log").val THEN Ok(TRUE)
  ELSE IF ~PyGetItem(har, "log").ok THEN PyGetItem(har, "log")
  ELSE IF ~PyContains(PyGetItem(har, "log").val, "entries").ok
       THEN PyContains(PyGetItem(har, "log").val, "entries")
  ELSE Ok(~PyContains(PyGetItem(har, "log").val, "entries").val)

\* entries = har_data['log']['entries'] and the iterator `for entry in entries`
EntriesOf(har) ==
  IF ~PyGetItem(har, "log").ok THEN PyGetItem(har, "log")
  ELSE IF ~PyGetItem(PyGetItem(har, "log").val, "entries").ok
  THEN PyGetItem(PyGetItem(har, "log").val, "entries")
  ELSE PyIter(PyGetItem(PyGetItem(har, "log").val, "entries").val)

(***************************************************************************)
(* Selected-column export.  The bytes of a CSV are kept as their lines,    *)
(* each line the texts of its fields; csv.QUOTE_ALL writes every field in  *)
(* quotes and utf-8-sig puts the byte-order mark first.                    *)
(***************************************************************************)
SELECTED_HEADERS ==
  << <<"author_author_id", "ID">>,
     <<"author_aweme_count", "\\u89c6\\u9891\\u4e2a\\u6570">>,
     <<"author_comment_avg", "\\u5e73\\u5747\\u8bc4\\u8bba">>,
     <<"author_digg_avg", "\\u5e73\\u5747\\u70b9\\u8d5e">>,
     <<"author_follower_count", "\\u7c89\\u4e1d\\u4e2a\\u6570">>,
     <<"author_nickname", "name">>,
     <<"author_share_avg", "\\u5e73\\u5747\\u5206\\u4eab">>,
     <<"author_unique_id", "\\u6296\\u97f3\\u53f7">>,
     <<"aweme_aweme_cover", "\\u89c6\\u9891\\u5c01\\u9762">>,
     <<"aweme_aweme_create_time", "\\u521b\\u5efa\\u65f6\\u95f4">>,
     <<"aweme_aweme_title", "\\u6807\\u9898">>,
     <<"aweme_aweme_url", "url">>,
     <<"aweme_collect_count", "\\u6536\\u85cf">>,
     <<"aweme_comment_count", "\\u8bc4\\u8bba">>,
     <<"aweme_digg_count", "\\u70b9\\u8d5e">>,
     <<"aweme_share_count", "\\u5206\\u4eab">>,
     <<"aweme_play_count_v2", "\\u9884\\u4f30\\u64ad\\u653e">>,
     <<"aweme_sentence", "\\u76f8\\u5173\\u5173\\u952e\\u68c0\\u7d22">>,
     <<"aweme_search_world", "\\u641c\\u7d22\\u5173\\u952e\\u8bcd">> >>

EmptyBytes == [bom |-> FALSE, lines |-> <<>>]

\* the text csv writes for a value: '' for None, str(value) otherwise
CsvField(v) == IF v.t = "null" THEN "" ELSE PyStr(v)

RECURSIVE SelectRow_ByDisplayName(_, _, _)
\* a lookup under the display name instead of the source field name
SelectRow_ByDisplayName(row, i, new_row) ==
  IF i > Len(SELECTED_HEADERS) THEN new_row
  ELSE SelectRow_ByDisplayName(row, i + 1,
                 DictSet(new_row, SELECTED_HEADERS[i][2],
                         IF SELECTED_HEADERS[i][2] \in DOMAIN row
                         THEN row[SELECTED_HEADERS[i][2]] ELSE Str("")))

RECURSIVE SelectRow(_, _, _)
\* new_row after the pairs from i on
SelectRow(row, i, new_row) ==
  IF i > Len(SELECTED_HEADERS) THEN new_row
  ELSE SelectRow(row, i + 1,
                 DictSet(new_row, SELECTED_HEADERS[i][2],
                         IF SELECTED_HEADERS[i][1] \in DOMAIN row
                         THEN row[SELECTED_HEADERS[i][1]] ELSE Str("")))

extract_selected_columns(rows) ==
  [r \in 1..Len(rows) |-> SelectRow(rows[r], 1, EmptyDict)]

download_selected_csv(rows) ==
  LET selected == extract_selected_columns(rows)
      fieldnames == [c \in 1..Len(SELECTED_HEADERS) |-> SELECTED_HEADERS[c][2]]
  IN IF selected = <<>> THEN EmptyBytes
     ELSE [bom |-> TRUE,
           lines |-> <<fieldnames>> \o
                     [r \in 1..Len(selected) |->
                        [c \in 1..Len(fieldnames) |-> CsvField(selected[r][fieldnames[c]])]]]


(***************************************************************************)
(* The HAR documents the walker is run on                                  *)
(***************************************************************************)
MaxEntries == 2

ContentEntry(content) ==
  Obj(<<"response">>, <<Obj(<<"content">>, <<content>>)>>)

JsonEntry(text) ==
  ContentEntry(Obj(<<"text", "mimeType">>, <<Str(text), Str("application/json")>>))

\* entries that are not a response with a text body
MalformedEntries ==
  { Num(5),
    Obj(<<"response">>, <<None>>),
    ContentEntry(Str("text")),
    ContentEntry(Obj(<<"mimeType">>, <<Str("application/json")>>)) }

\* an image entry whose text is a matching envelope
ImageEntry ==
  ContentEntry(Obj(<<"text", "mimeType">>, <<Str(TextMain), Str("image/jpg")>>))

\* a base64 body, and no mimeType
Base64Entry == ContentEntry(Obj(<<"text">>, <<Str(TextAuthorB64)>>))

EntryPool ==
  MalformedEntries \cup {ImageEntry, Base64Entry, JsonEntry(TextGarbage)}
  \cup {JsonEntry(p[1]) : p \in JsonText}

HarOf(entry_list) == Obj(<<"log">>, <<Obj(<<"entries">>, <<List(entry_list)>>)>>)

\* documents without a list under log.entries
MalformedDocs ==
  { None, Num(5), Str("log"), Str("abc"), List(<<Str("log")>>),
    Obj(<<>>, <<>>),
    Obj(<<"entries">>, <<List(<<>>)>>),
    Obj(<<"log">>, <<None>>),
    Obj(<<"log">>, <<Num(5)>>),
    Obj(<<"log">>, <<Str("entries")>>),
    Obj(<<"log">>, <<Obj(<<>>, <<>>)>>),
    Obj(<<"log">>, <<Obj(<<"entries">>, <<None>>)>>),
    Obj(<<"log">>, <<Obj(<<"entries">>, <<Num(5)>>)>>),
    Obj(<<"log">>, <<Obj(<<"entries">>, <<Str("abc")>>)>>),
    Obj(<<"log">>, <<Obj(<<"entries">>, <<Obj(<<"response">>, <<Num(1)>>)>>)>>) }

HarDocs ==
  MalformedDocs \cup
  { HarOf(es) : es \in UNION { [1..n -> EntryPool] : n \in 0..MaxEntries } }

\* the offsets of local time from UTC, in seconds, that the runs are made under
UtcOffsets == {0, 28800}

(***************************************************************************)
(* The run of extract_data_from_har on one document, followed by the       *)
(* export of its records                                                   *)
(***************************************************************************)
VARIABLES
  har_data,        \* the argument
  utc_offset,      \* the local time zone of the run
  pc,              \* "start", "loop", "done" (returned), "raised", "exported"
  entries,         \* the sequence `for entry in entries` walks
  idx,             \* the index of the next entry
  extracted_data,  \* the records appended so far
  valid_posts,     \* the counter
  stage,           \* how far the last entry got: response, text, mime, decode, posts
  data,            \* the decoded payload of the last entry
  posts,           \* what extract_posts returned for it
  posts_exc,       \* the exception extract_posts let out ("" for none)
  flat_calls,      \* the extract_simple_fields calls made for it
  counted,         \* the posts of the last entry that were counted
  sources,         \* history: for each record, the post it was built from
  origin,          \* history: for each record, the index of its entry
  failed,          \* history: the entries left through the except clause
  csv              \* the bytes download_selected_csv returned

vars ==
  <<har_data, utc_offset, pc, entries, idx, extracted_data, valid_posts, stage,
    data, posts, posts_exc, flat_calls, counted, sources, origin, failed, csv>>

Init ==
  /\ har_data \in HarDocs
  /\ utc_offset \in UtcOffsets
  /\ pc = "start"
  /\ entries = <<>>
  /\ idx = 1
  /\ extracted_data = <<>>
  /\ valid_posts = 0
  /\ stage = "none"
  /\ data = None
  /\ posts = <<>>
  /\ posts_exc = ""
  /\ flat_calls = <<>>
  /\ counted = 0
  /\ sources = <<>>
  /\ origin = <<>>
  /\ failed = {}
  /\ csv = EmptyBytes

\* lines 192-200: the shape check; return, raise, or enter the loop
Begin ==
  /\ pc = "start"
  /\ IF ~ShapeCheck(har_data).ok THEN pc' = "raised" /\ entries' = entries
     ELSE IF ShapeCheck(har_data).val THEN pc' = "done" /\ entries' = entries
     ELSE IF ~EntriesOf(har_data).ok THEN pc' = "raised" /\ entries' = entries
     ELSE pc' = "loop" /\ entries' = EntriesOf(har_data).val
  /\ UNCHANGED <<har_data, utc_offset, idx, extracted_data, valid_posts, stage,
                 data, posts, posts_exc, flat_calls, counted, sources, origin,
                 failed, csv>>

\* lines 200-239: one iteration of the loop
ProcessEntry ==
  /\ pc = "loop"
  /\ idx <= Len(entries)
  /\ \E out \in {EntryOutcome(entries[idx], utc_offset)} :
        /\ extracted_data' = extracted_data \o out.records
        /\ valid_posts' = valid_posts + out.counted
        /\ stage' = out.stage
        /\ data' = out.data
        /\ posts' = out.run.posts
        /\ posts_exc' = out.run.exc
        /\ flat_calls' = out.run.calls
        /\ counted' = out.counted
        /\ sources' = sources \o SubSeq(out.run.posts, 1, Len(out.records))
        /\ origin' = origin \o [k \in 1..Len(out.records) |-> idx]
        /\ failed' = IF out.exc THEN failed \cup {idx} ELSE failed
        /\ idx' = NextEntry(idx, Len(entries), out.exc)
  /\ UNCHANGED <<har_data, utc_offset, pc, entries, csv>>

\* line 241: the loop is over, return extracted_data, valid_posts
Return ==
  /\ pc = "loop"
  /\ idx > Len(entries)
  /\ pc' = "done"
  /\ UNCHANGED <<har_data, utc_offset, entries, idx, extracted_data, valid_posts,
                 stage, data, posts, posts_exc, flat_calls, counted, sources,
                 origin, failed, csv>>

\* lines 444-455: download_selected_csv on the records returned
DownloadSelected ==
  /\ pc = "done"
  /\ csv' = download_selected_csv(extracted_data)
  /\ pc' = "exported"
  /\ UNCHANGED <<har_data, utc_offset, entries, idx, extracted_data, valid_posts,
                 stage, data, posts, posts_exc, flat_calls, counted, sources,
                 origin, failed>>

Next == Begin \/ ProcessEntry \/ Return \/ DownloadSelected

Spec == Init /\ [][Next]_vars

Returned == pc \in {"done", "exported"}


(***************************************************************************)
(* Properties                                                              *)
(***************************************************************************)
RECURSIVE WalkOf(_, _)
\* the records and the count of a walk over the entries es
WalkOf(es, offset) ==
  IF es = <<>> THEN [records |-> <<>>, count |-> 0]
  ELSE [records |-> EntryOutcome(Head(es), offset).records \o WalkOf(Tail(es), offset).records,
        count |-> EntryOutcome(Head(es), offset).counted + WalkOf(Tail(es), offset).count]

RECURSIVE PickIdx(_, _, _)
\* the elements of seq at the indices in keep, from i on, in order
PickIdx(seq, keep, i) ==
  IF i > Len(seq) THEN <<>>
  ELSE (IF i \in keep THEN <<seq[i]>> ELSE <<>>) \o PickIdx(seq, keep, i + 1)

\* the value under key of an object, None when absent or not an object
Field(v, key) ==
  IF v.t = "obj" /\ KeyIndex(v, key) # 0 THEN v.vals[KeyIndex(v, key)] ELSE None

\* a document with no 'log' key, a log object with no 'entries' key, or a list
\* of zero entries
WithoutEntries(har) ==
  /\ har.t = "obj"
  /\ \/ KeyIndex(har, "log") = 0
     \/ /\ Field(har, "log").t = "obj"
        /\ \/ KeyIndex(Field(har, "log"), "entries") = 0
           \/ Field(Field(har, "log"), "entries") = List(<<>>)

\* C1: for a document with zero entries, no 'log' key, or a log object with no
\* 'entries' key, extract_data_from_har does not raise and returns ([], 0).
C1_EmptyWithoutEntries ==
  WithoutEntries(har_data) =>
    /\ pc # "raised"
    /\ pc # "start" => Len(entries) = 0
    /\ Returned => extracted_data = <<>> /\ valid_posts = 0

C1_Witness ==
  /\ pc = "done"
  /\ WithoutEntries(har_data)
  /\ KeyIndex(har_data, "log") # 0
  /\ Field(har_data, "log").t = "obj"
  /\ KeyIndex(Field(har_data, "log"), "entries") = 0

\* an entry whose response.content.mimeType equals "image/jpg"
IsImageEntry(entry) ==
  Field(Field(Field(entry, "response"), "content"), "mimeType") = Str("image/jpg")

\* C2: an image/jpg entry adds no record and no count: the records and the
\* count returned are those of the walk over the document without its
\* image/jpg entries.
C2_ImageEntriesContributeNothing ==
  (Returned /\ \E i \in 1..Len(entries) : IsImageEntry(entries[i])) =>
    \A w \in {WalkOf(SelectSeq(entries, LAMBDA e : ~IsImageEntry(e)), utc_offset)} :
       extracted_data = w.records /\ valid_posts = w.count

C2_Witness ==
  /\ pc = "done"
  /\ \E i \in 1..Len(entries) :
       /\ IsImageEntry(entries[i])
       /\ Truthy(decode_content(Field(Field(Field(entries[i], "response"), "content"), "text")))
       /\ extract_posts(decode_content(
            Field(Field(Field(entries[i], "response"), "content"), "text"))).posts # <<>>
  /\ Len(extracted_data) > 0

\* C3: an exception in one entry ends that entry only: every entry is visited,
\* and the records of the other entries are, in document order, the records
\* of the walk over the document without the failing entries.
C3_EntryFaultIsolation ==
  (Returned /\ failed # {}) =>
    /\ idx = Len(entries) + 1
    /\ PickIdx(extracted_data, {k \in 1..Len(origin) : origin[k] \notin failed}, 1)
         = WalkOf(PickIdx(entries, (1..Len(entries)) \ failed, 1), utc_offset).records

C3_Witness ==
  /\ pc = "done"
  /\ \E f \in failed : \E k \in 1..Len(origin) : origin[k] > f

\* C4: a timestamp that cannot be converted never loses a record: every post
\* of an entry is appended and the posts after it are processed.
C4_ConversionNeverLosesRecord ==
  stage = "posts" =>
    Cardinality({k \in 1..Len(origin) : origin[k] = idx - 1}) = Len(posts)

\* a non-empty string of decimal digits
IsDigitString(v) == v.t = "str" /\ v.s # "" /\ IsDigitChars(Chars(v.s))

\* C5 as stated: a field of a record differs from the field of its post only
\* if its name contains 'time' and its value is a non-empty string of digits.
C5_OnlyDigitStringsRewritten ==
  \A k \in 1..Len(extracted_data) :
     /\ DOMAIN extracted_data[k] = DOMAIN sources[k]
     /\ \A f \in DOMAIN sources[k] :
          extracted_data[k][f] # sources[k][f] =>
            HasTimeName(f) /\ IsDigitString(sources[k][f])

\* C5 amended: a field of a record differs from the field of its post only if
\* its name contains 'time' (in any case) and its value is a non-empty string
\* of digits or a positive integer; every other field is copied unchanged.
C5_OnlyDigitValuesRewritten ==
  \A k \in 1..Len(extracted_data) :
     /\ DOMAIN extracted_data[k] = DOMAIN sources[k]
     /\ \A f \in DOMAIN sources[k] :
          extracted_data[k][f] # sources[k][f] =>
            /\ HasTimeName(f)
            /\ \/ IsDigitString(sources[k][f])
               \/ sources[k][f].t = "int" /\ sources[k][f].n > 0

C5_Witness ==
  \E k \in 1..Len(extracted_data) :
     /\ \E f \in DOMAIN sources[k] :
          /\ extracted_data[k][f] # sources[k][f]
          /\ sources[k][f].t = "int"
     /\ \E f \in DOMAIN sources[k] :
          /\ extracted_data[k][f] # sources[k][f]
          /\ IsDigitString(sources[k][f])
          /\ Chars(f) # LowerChars(Chars(f))
     /\ \E f \in DOMAIN sources[k] :
          /\ ~HasTimeName(f)
          /\ IsDigitString(sources[k][f])
          /\ extracted_data[k][f] = sources[k][f]
     /\ \E f \in DOMAIN sources[k] :
          /\ HasTimeName(f)
          /\ sources[k][f] = Str("abc")
          /\ extracted_data[k][f] = sources[k][f]

\* C6: extract_data_from_har never raises, whatever JSON value it is given.
C6_NeverRaises == pc # "raised"

\* the payload has the shape {data: {list: [...]}}
IsEnvelope(payload) ==
  /\ payload.t = "obj"
  /\ KeyIndex(payload, "data") # 0
  /\ Field(payload, "data").t = "obj"
  /\ KeyIndex(Field(payload, "data"), "list") # 0
  /\ Field(Field(payload, "data"), "list").t = "list"

\* C7: for a payload that deviates from the envelope, extract_posts returns
\* an empty sequence and raises nothing.
C7_DeviationYieldsNoPosts ==
  (stage = "posts" /\ ~IsEnvelope(data)) => posts = <<>> /\ posts_exc = ""

C7_Witness ==
  /\ stage = "posts"
  /\ data = Obj(<<"data">>, <<None>>)
  /\ posts = <<>>

\* the record expected of an item: the fields of aweme_info under 'aweme' and
\* of author_info under 'author', each when it is an object
ExpectedRecord(item) ==
  LET aweme == IF Field(item, "aweme_info").t = "obj"
               THEN extract_simple_fields(Field(item, "aweme_info"), "aweme")
               ELSE EmptyDict
      author == IF Field(item, "author_info").t = "obj"
                THEN extract_simple_fields(Field(item, "author_info"), "author")
                ELSE EmptyDict
  IN [f \in DOMAIN aweme \cup DOMAIN author |->
        IF f \in DOMAIN author THEN author[f] ELSE aweme[f]]

\* C8: for a valid envelope, extract_posts returns, in list order, one record
\* for each item that is an object with at least one flattened field; the
\* walker counts no more posts than that.
C8_OneRecordPerNonEmptyItem ==
  (stage = "posts" /\ IsEnvelope(data)) =>
    \A kept \in {SelectSeq(Field(Field(data, "data"), "list").items,
                           LAMBDA item : item.t = "obj" /\ ExpectedRecord(item) # EmptyDict)} :
       /\ posts = [k \in 1..Len(kept) |-> ExpectedRecord(kept[k])]
       /\ counted <= Len(kept)
       /\ posts_exc = ""

C8_Witness ==
  /\ stage = "posts"
  /\ IsEnvelope(data)
  /\ Len(Field(Field(data, "data"), "list").items) = 5
  /\ Len(posts) = 3
  /\ counted = 3
  /\ \E k \in 1..3 : \A f \in DOMAIN posts[k] : f \in {"author_uid"}

\* what C9 asks of one extract_simple_fields call
FlatContract(obj, prefix, result) ==
  /\ \A f \in DOMAIN result : IsScalar(result[f])
  /\ \A j \in 1..Len(obj.keys) :
       \A f \in {prefix \o "_" \o obj.keys[j]} : \A v \in {obj.vals[j]} :
          /\ (v.t = "obj" /\ Truthy(v)) => f \notin DOMAIN result
          /\ (v.t = "list" /\ Truthy(v) /\ obj.keys[j] # "search_world")
               => f \notin DOMAIN result
          /\ (v.t \in {"obj", "list"} /\ ~Truthy(v))
               => f \in DOMAIN result /\ result[f] = Str("")
          /\ (v.t = "list" /\ obj.keys[j] = "search_world") =>
               /\ f \in DOMAIN result
               /\ result[f].t = "str"
               /\ (\A i \in 1..Len(v.items) : v.items[i].t = "str") =>
                    result[f].s = JoinStrs([i \in 1..Len(v.items) |-> v.items[i].s],
                                           "\\u3001")

\* C9: every value extract_simple_fields returns, and every value of every
\* record of the result, is a scalar; a non-empty object and a non-empty list
\* other than search_world are absent, an empty object or list is the empty
\* string, and a search_world list is the string of its elements joined.
C9_FlatValuesAreScalars ==
  /\ \A c \in 1..Len(flat_calls) :
       FlatContract(flat_calls[c].obj, flat_calls[c].prefix, flat_calls[c].result)
  /\ \A k \in 1..Len(extracted_data) :
       \A f \in DOMAIN extracted_data[k] : IsScalar(extracted_data[k][f])

C9_Witness ==
  \E c \in 1..Len(flat_calls) :
     /\ flat_calls[c].prefix = "aweme"
     /\ Field(flat_calls[c].obj, "search_world") = List(<<Str("a"), Str("b"), Str("c")>>)
     /\ flat_calls[c].result["aweme_search_world"] = Str("a\\u3001b\\u3001c")
     /\ Truthy(Field(flat_calls[c].obj, "stat"))
     /\ Truthy(Field(flat_calls[c].obj, "tags"))
     /\ DOMAIN flat_calls[c].result =
          {"aweme_search_world", "aweme_empty_list", "aweme_extra", "aweme_flag",
           "aweme_none", "aweme_ratio"}

\* C10: download_selected_csv returns no bytes for zero records; otherwise the
\* header is the 19 display names in their order, then one row per record in
\* order, each column the record's value under the mapped source field, or
\* the empty string when the record has no such field.
C10_SelectedExport ==
  pc = "exported" =>
    IF extracted_data = <<>> THEN csv = EmptyBytes
    ELSE /\ csv.bom
         /\ Len(csv.lines) = Len(extracted_data) + 1
         /\ Len(SELECTED_HEADERS) = 19
         /\ csv.lines[1] = [c \in 1..19 |-> SELECTED_HEADERS[c][2]]
         /\ \A r \in 1..Len(extracted_data) :
              csv.lines[r + 1] =
                [c \in 1..19 |->
                   IF SELECTED_HEADERS[c][1] \in DOMAIN extracted_data[r]
                   THEN CsvField(extracted_data[r][SELECTED_HEADERS[c][1]])
                   ELSE ""]

C10_Witness ==
  /\ pc = "exported"
  /\ Len(extracted_data) >= 2
  /\ "author_nickname" \in DOMAIN extracted_data[1]
  /\ "aweme_aweme_id" \in DOMAIN extracted_data[1]
  /\ csv.lines[2][6] = "Alice"
  /\ \A c \in 1..19 : csv.lines[3][c] = ""

C10_WitnessEmpty == pc = "exported" /\ extracted_data = <<>> /\ csv = EmptyBytes

\* C11: after the walk the count returned equals the number of records
\* returned, and the records are in encounter order: entries in document
\* order, and within an entry the posts in list order.
C11_CountEqualsRecordsInOrder ==
  Returned =>
    /\ valid_posts = Len(extracted_data)
    /\ \A k \in 1..(Len(origin) - 1) : origin[k] <= origin[k + 1]
    /\ \A e \in 1..Len(entries) :
         PickIdx(sources, {k \in 1..Len(origin) : origin[k] = e}, 1)
           = SubSeq(extract_posts(decode_content(
                      Field(Field(Field(entries[e], "response"), "content"), "text"))).posts,
                    1, Cardinality({k \in 1..Len(origin) : origin[k] = e}))

====
